---- MODULE Spec2Model ----
(***************************************************************************)
(* The LLM Bridge client (package bridgeclient): the two transports, the   *)
(* non-streaming completion call, the streaming completion call and its    *)
(* background SSE reader, the discovery calls GetAgents and GetServices,   *)
(* and the JSON wire form of a CompletionRequest.                          *)
(*                                                                         *)
(* Spec is one completion call over every response body; SpecOps one call  *)
(* of any of the six methods with any argument, redirects included;        *)
(* SpecWire the construction of a request from any CompletionRequest;      *)
(* SpecConcurrent two calls interleaved on one Client; SpecLive one        *)
(* streaming call under fair scheduling of its goroutines; SpecPath one    *)
(* round trip over Direct Dispatch of a request with any path.             *)
(*                                                                         *)
(* Text (Go strings and byte slices) is a sequence of tokens, so that      *)
(* fmt.Errorf/Sprintf is concatenation, strings.HasPrefix is a prefix      *)
(* test and two error messages are equal exactly when their texts are.     *)
(***************************************************************************)
EXTENDS Integers, Sequences, FiniteSets, TLC

\* ------------------------------------------------------------------ bounds
\* Largest number of lines in a response body.
MaxLines == 3

\* ------------------------------------------------------------ text helpers
\* strings.HasPrefix
HasPrefix(s, p) == Len(s) >= Len(p) /\ SubSeq(s, 1, Len(p)) = p

\* strings.TrimPrefix
TrimPrefix(s, p) == IF HasPrefix(s, p) THEN SubSeq(s, Len(p) + 1, Len(s)) ELSE s

\* strings.Contains
Contains(s, p) == \E i \in 0..(Len(s) - Len(p)) : SubSeq(s, i + 1, i + Len(p)) = p

\* strings.Index for a one-token needle: 0-based, -1 when absent.
Index(s, tok) ==
  LET I == {i \in 1..Len(s) : s[i] = tok} IN
  IF I = {} THEN -1 ELSE (CHOOSE i \in I : \A j \in I : i <= j) - 1

IsPrefix(s, t) == Len(s) <= Len(t) /\ SubSeq(t, 1, Len(s)) = s

SeqsUpTo(S, n) == UNION {[1..k -> S] : k \in 0..n}

\* ---------------------------------------------------------------- constants
aiPluginID == <<"mattermost-ai">>
mattermostServerID == <<"mattermost-server">>

StatusOK == 200

EventTypeText == "text"
EventTypeEnd == "end"
EventTypeError == "error"

\* The SSE data marker of the reader.
DataPrefix == <<"data: ">>

\* ------------------------------------------------------------------- JSON
\* The JSON documents that occur in bodies, each one token of text. JSONDoc
\* is what encoding/json sees in the token: whether it is syntactically
\* valid, and the members of the object with the JSON type and the decoded
\* text of each value.
DocCompletionHi == "{\"completion\":\"hi\"}"
DocCompletionEmpty == "{\"completion\":\"\"}"
DocCompletionNumber == "{\"completion\":5}"
DocErrorForbidden == "{\"error\":\"forbidden\"}"
DocEmptyObject == "{}"
DocNotJSON == "{not-json"
DocTextA == "{\"type\":\"text\",\"value\":\"a\"}"
DocTextB == "{\"type\":\"text\",\"value\":\"b\"}"
DocEnd == "{\"type\":\"end\"}"
DocError == "{\"type\":\"error\",\"value\":\"boom\"}"
DocAgentsTwo == "{\"agents\":[{\"id\":\"a1\"},{\"id\":\"a2\"}]}"
DocAgentsEmpty == "{\"agents\":[]}"
DocAgentsNull == "{\"agents\":null}"
DocAgentsString == "{\"agents\":\"a1\"}"
DocServicesOne == "{\"services\":[{\"id\":\"s1\"}]}"
DocServicesEmpty == "{\"services\":[]}"

Member(k, ty, v) == [k |-> k, ty |-> ty, v |-> v]

JSONDoc(tok) ==
  CASE tok = DocCompletionHi -> [valid |-> TRUE, members |-> <<Member("completion", "string", <<"hi">>)>>]
    [] tok = DocCompletionEmpty -> [valid |-> TRUE, members |-> <<Member("completion", "string", <<>>)>>]
    [] tok = DocCompletionNumber -> [valid |-> TRUE, members |-> <<Member("completion", "number", <<"5">>)>>]
    [] tok = DocErrorForbidden -> [valid |-> TRUE, members |-> <<Member("error", "string", <<"forbidden">>)>>]
    [] tok = DocEmptyObject -> [valid |-> TRUE, members |-> <<>>]
    [] tok = DocTextA -> [valid |-> TRUE, members |-> <<Member("type", "string", <<EventTypeText>>), Member("value", "string", <<"a">>)>>]
    [] tok = DocTextB -> [valid |-> TRUE, members |-> <<Member("type", "string", <<EventTypeText>>), Member("value", "string", <<"b">>)>>]
    [] tok = DocEnd -> [valid |-> TRUE, members |-> <<Member("type", "string", <<EventTypeEnd>>)>>]
    [] tok = DocError -> [valid |-> TRUE, members |-> <<Member("type", "string", <<EventTypeError>>), Member("value", "string", <<"boom">>)>>]
    [] tok = DocAgentsTwo -> [valid |-> TRUE, members |-> <<Member("agents", "array", <<"a1", "a2">>)>>]
    [] tok = DocAgentsEmpty -> [valid |-> TRUE, members |-> <<Member("agents", "array", <<>>)>>]
    [] tok = DocAgentsNull -> [valid |-> TRUE, members |-> <<Member("agents", "null", <<>>)>>]
    [] tok = DocAgentsString -> [valid |-> TRUE, members |-> <<Member("agents", "string", <<"a1">>)>>]
    [] tok = DocServicesOne -> [valid |-> TRUE, members |-> <<Member("services", "array", <<"s1">>)>>]
    [] tok = DocServicesEmpty -> [valid |-> TRUE, members |-> <<Member("services", "array", <<>>)>>]
    [] OTHER -> [valid |-> FALSE, members |-> <<>>]

\* JSON insignificant whitespace around the top-level value.
RECURSIVE TrimSpace(_)
TrimSpace(s) ==
  IF s = <<>> THEN s
  ELSE IF Head(s) = "\n" THEN TrimSpace(Tail(s))
  ELSE IF s[Len(s)] = "\n" THEN TrimSpace(SubSeq(s, 1, Len(s) - 1))
  ELSE s

NoError == <<>>

\* json.Unmarshal's syntax check: the data must be exactly one JSON value.
SyntaxError(data) ==
  LET t == TrimSpace(data) IN
  IF t = <<>> THEN <<"unexpected end of JSON input">>
  ELSE IF Len(t) = 1 /\ JSONDoc(t[1]).valid THEN NoError
  ELSE <<"invalid character">>

\* The value json.Unmarshal stores in a string field named key, starting
\* from the zero value: the last member of that name wins.
RECURSIVE FieldValue(_, _, _)
FieldValue(members, key, acc) ==
  IF members = <<>> THEN acc
  ELSE LET m == Head(members) IN
       FieldValue(Tail(members), key,
                  IF m.k = key /\ m.ty = "string" THEN m.v ELSE acc)

\* json.Unmarshal into a struct with one string field named key:
\* [err, val]. A member of that name with a non-string value is a type
\* error.
UnmarshalField(data, key) ==
  LET syn == SyntaxError(data) IN
  IF syn # NoError THEN [err |-> syn, val |-> <<>>]
  ELSE LET ms == JSONDoc(TrimSpace(data)[1]).members
           bad == \E i \in 1..Len(ms) : ms[i].k = key /\ ms[i].ty \notin {"string", "null"}
       IN [err |-> IF bad THEN <<"cannot unmarshal ", key>> ELSE NoError,
           val |-> FieldValue(ms, key, <<>>)]

\* The value json.Unmarshal stores in a slice field named key: the items of
\* the last array member of that name, none when there is no such member
\* or it is null.
RECURSIVE ListValue(_, _, _)
ListValue(members, key, acc) ==
  IF members = <<>> THEN acc
  ELSE LET m == Head(members) IN
       ListValue(Tail(members), key,
                 IF m.k = key /\ m.ty = "array" THEN m.v ELSE acc)

\* json.Unmarshal into a struct with one slice field named key: [err, val].
UnmarshalList(data, key) ==
  LET syn == SyntaxError(data) IN
  IF syn # NoError THEN [err |-> syn, val |-> <<>>]
  ELSE LET ms == JSONDoc(TrimSpace(data)[1]).members
           bad == \E i \in 1..Len(ms) : ms[i].k = key /\ ms[i].ty \notin {"array", "null"}
       IN [err |-> IF bad THEN <<"cannot unmarshal ", key>> ELSE NoError,
           val |-> ListValue(ms, key, <<>>)]

\* ------------------------------------------------------------------ inputs
Calls == {1}

Ops == {"AgentCompletion", "ServiceCompletion",
        "AgentCompletionStream", "ServiceCompletionStream"}

StreamingOps == {"AgentCompletionStream", "ServiceCompletionStream"}

DiscoveryOps == {"GetAgents", "GetServices"}

AllOps == Ops \cup DiscoveryOps

Targets == {<<"bot1">>}

\* A control character, which net/url refuses in a URL.
CTL == "<DEL>"

\* Agent and service arguments as any caller may pass them: identifiers,
\* and strings that hold a URL delimiter or a control character.
AnyTargets ==
  { <<"bot1">>, <<"openai">>, <<"bot1", "/", "nostream">>, <<"bot1", "?", "x">>,
    <<"bot1", "#", "x">>, <<CTL>> }

\* userID arguments of the discovery calls: absent, identifiers, and
\* strings that hold a URL delimiter or a control character.
AnyUserIDs ==
  { <<>>, <<"user1">>, <<"user2">>, <<"user1", "#", "x">>, <<"#", "x">>, <<CTL>> }

\* A nil slice, and the slice of the given items.
NilSlice == [nil |-> TRUE, items |-> <<>>]
Slice(items) == [nil |-> FALSE, items |-> items]

\* Post
Post(role, message, fileIDs) == [Role |-> role, Message |-> message, FileIDs |-> fileIDs]

\* A request the caller passes. JSONOutputFormat is an arbitrary map: "none"
\* is the nil map, "empty" a map without keys, "object" a map with keys,
\* "unsupported" a map that holds a value encoding/json cannot encode.
Requests ==
  [Posts : {Slice(<<Post(<<"user">>, <<"hi">>, NilSlice)>>)},
   MaxGeneratedTokens : {0},
   JSONOutputFormat : {"none", "unsupported"},
   UserID : {<<>>},
   ChannelID : {<<>>}]

\* Largest number of posts in a request.
MaxPosts == 2

\* The posts and the requests of the runs about the wire form.
WirePosts ==
  { Post(r, <<"hi">>, f) :
      r \in {<<"user">>, <<"assistant">>}, f \in {NilSlice, Slice(<<>>), Slice(<<"f1">>)} }

WireRequests ==
  [Posts : {NilSlice} \cup {Slice(ps) : ps \in SeqsUpTo(WirePosts, MaxPosts)},
   MaxGeneratedTokens : {0, 1},
   JSONOutputFormat : {"none", "empty", "object", "unsupported"},
   UserID : {<<>>, <<"user1">>},
   ChannelID : {<<>>, <<"ch1">>}]

Statuses == {200, 201, 403}

\* Lines of an event stream: padding, a marker without or with a space but
\* no payload, the frames of the protocol, and a malformed frame.
StreamLines ==
  { <<": keepalive">>,
    DataPrefix,
    DataPrefix \o <<DocTextA>>,
    DataPrefix \o <<DocTextB>>,
    DataPrefix \o <<DocEnd>>,
    DataPrefix \o <<DocError>>,
    DataPrefix \o <<DocNotJSON>> }

\* One-line bodies as the non-streaming endpoints send them.
DocLines ==
  { <<DocCompletionHi>>, <<DocCompletionEmpty>>, <<DocCompletionNumber>>,
    <<DocErrorForbidden>>, <<DocEmptyObject>>, <<DocNotJSON>>, <<"forbidden">> }

BodyLines == SeqsUpTo(StreamLines, MaxLines) \cup {<<l>> : l \in DocLines}

\* A response body: its lines, and whether reading it ends in a fault
\* after them rather than in a clean end of input.
Bodies == [lines : BodyLines, fault : BOOLEAN]

Responses == [StatusCode : Statuses, Body : Bodies]

\* One-line bodies as the discovery endpoints send them.
ListDocLines ==
  { <<DocAgentsTwo>>, <<DocAgentsEmpty>>, <<DocAgentsNull>>, <<DocAgentsString>>,
    <<DocServicesOne>>, <<DocServicesEmpty>> }

\* The answers of the runs that cover all six operations: the one-line
\* bodies of every endpoint, an empty body and a few event streams.
OpsBodyLines ==
  {<<l>> : l \in DocLines \cup ListDocLines}
    \cup { <<>>,
           <<DataPrefix \o <<DocTextA>>>>,
           <<DataPrefix \o <<DocTextA>>, DataPrefix \o <<DocEnd>>>>,
           <<DataPrefix \o <<DocNotJSON>>>> }

\* Redirects the host may answer with: to a path of the plugin, with the
\* method kept (307) or turned into GET (302); and a 307 without Location.
Redirects ==
  { [StatusCode |-> 302, Location |-> <<"/">> \o aiPluginID \o <<"/", "moved">>,
     Body |-> [lines |-> <<>>, fault |-> FALSE]],
    [StatusCode |-> 307, Location |-> <<"/">> \o aiPluginID \o <<"/", "moved">>,
     Body |-> [lines |-> <<>>, fault |-> FALSE]],
    [StatusCode |-> 307, Body |-> [lines |-> <<>>, fault |-> FALSE]] }

OpsResponses ==
  [StatusCode : Statuses, Body : [lines : OpsBodyLines, fault : BOOLEAN]] \cup Redirects

\* The answers of the runs with two concurrent calls.
ConcResponses ==
  { [StatusCode |-> 200, Body |-> [lines |-> <<DataPrefix \o <<DocTextA>>, DataPrefix \o <<DocEnd>>>>, fault |-> FALSE]],
    [StatusCode |-> 200, Body |-> [lines |-> <<DataPrefix \o <<DocTextB>>>>, fault |-> TRUE]],
    [StatusCode |-> 200, Body |-> [lines |-> << <<DocCompletionHi>> >>, fault |-> FALSE]],
    [StatusCode |-> 200, Body |-> [lines |-> << <<DocAgentsTwo>> >>, fault |-> FALSE]],
    [StatusCode |-> 403, Body |-> [lines |-> << <<DocErrorForbidden>> >>, fault |-> FALSE]] }

\* The answers of the runs under fair scheduling: event streams of padding,
\* text frames, end frames and malformed frames, ending cleanly or in a fault.
LiveLines ==
  { <<": keepalive">>,
    DataPrefix \o <<DocTextA>>,
    DataPrefix \o <<DocEnd>>,
    DataPrefix \o <<DocNotJSON>> }

LiveResponses ==
  [StatusCode : {200, 403}, Body : [lines : SeqsUpTo(LiveLines, MaxLines), fault : BOOLEAN]]

\* The responses the host may answer with in a run of the given family.
HostResponses(scen) ==
  CASE scen = "completion" -> Responses
    [] scen = "operations" -> OpsResponses
    [] scen = "concurrent" -> ConcResponses
    [] scen = "stream" -> LiveResponses

\* What the host router may write into the recorder: nothing, or a status
\* and a body.
Nothing == [nothing |-> TRUE]
RouterWrites == {Nothing} \cup [StatusCode : Statuses, lines : BodyLines]

\* The same for a run of the given family: the router can write what a
\* response can hold.
RouterWritesIn(scen) ==
  {Nothing}
    \cup {[StatusCode |-> r.StatusCode, lines |-> r.Body.lines] :
            r \in {x \in HostResponses(scen) : "Location" \notin DOMAIN x}}
    \cup {[StatusCode |-> r.StatusCode, Location |-> r.Location, lines |-> r.Body.lines] :
            r \in {x \in HostResponses(scen) : "Location" \in DOMAIN x}}

\* A nil *http.Response.
Nil == [nil |-> TRUE]

\* ------------------------------------------------------------------- state
VARIABLES
  client,       \* the Client: its transport and what the transport captured
  scenario,     \* which family of answers the host gives in this run
  op,           \* per call: the public method called
  target,       \* per call: the agent, service or userID argument
  request,      \* per call: the CompletionRequest passed
  reqBody,      \* per call: the body of req, the JSON members json.Marshal wrote
  reqMethod,    \* per call: req.Method
  reqPath,      \* per call: req.URL.Path
  reqQuery,     \* per call: req.URL.RawQuery
  reqFragment,  \* per call: req.URL.Fragment
  hostCall,     \* per call: what the transport handed to the host API
  roundTrips,   \* per call: number of RoundTrip invocations
  callPc,       \* per call: position of the calling goroutine
  resp,         \* per call: the *http.Response of httpClient.Do
  bodyClosed,   \* per call: the local bodyClosed of doStreamingRequest
  result,       \* per call: what the method returned
  bodyPos,      \* per call: lines of resp.Body consumed so far
  bodyEnd,      \* per call: a read of resp.Body reached its end or fault
  bodyCloses,   \* per call: number of resp.Body.Close() calls
  readers,      \* per call: number of reader goroutines started
  readerPc,     \* per call: position of the reader goroutine
  event,        \* per call: the event the reader is sending
  received,     \* per call: events the consumer received from the channel
  streamClosed, \* per call: close(stream) happened
  consumer      \* per call: what the consumer is doing with the handle

callVars == <<op, target, request, reqBody, reqMethod, reqPath, reqQuery, reqFragment, hostCall, roundTrips, callPc, resp, bodyClosed, result>>
bodyVars == <<bodyPos, bodyEnd, bodyCloses>>
readerVars == <<readers, readerPc, event>>
streamVars == <<received, streamClosed, consumer>>
vars == <<client, scenario, callVars, bodyVars, readerVars, streamVars>>

NoEvent == [Type |-> "none", Value |-> <<>>]
NoResult == [value |-> <<>>, handle |-> FALSE, err |-> NoError]
NoHostCall == [api |-> "none"]

\* NewClient / NewClientFromApp
NewClient == [transport |-> "pluginAPIRoundTripper", userID |-> <<>>]
NewClientFromApp(userID) == [transport |-> "appAPIRoundTripper", userID |-> userID]

UserIDs == {<<"user1">>}

\* The state after construction of the client, with the calls in calls
\* about to be made: each a method of ops with an argument of targets (a
\* completion method) or of userIDs (a discovery method).
InitFor(scen, calls, ops, targets, userIDs, requests) ==
  /\ client \in {NewClient} \cup {NewClientFromApp(u) : u \in UserIDs}
  /\ scenario = scen
  /\ op \in [calls -> ops]
  /\ target \in [calls -> targets \cup userIDs]
  /\ \A c \in calls : target[c] \in (IF op[c] \in DiscoveryOps THEN userIDs ELSE targets)
  /\ request \in [calls -> requests]
  /\ \A c \in calls : op[c] \in DiscoveryOps => request[c].JSONOutputFormat = "none"
  /\ reqBody = [c \in calls |-> <<>>]
  /\ reqMethod = [c \in calls |-> ""]
  /\ reqPath = [c \in calls |-> <<>>]
  /\ reqQuery = [c \in calls |-> <<>>]
  /\ reqFragment = [c \in calls |-> <<>>]
  /\ hostCall = [c \in calls |-> NoHostCall]
  /\ roundTrips = [c \in calls |-> 0]
  /\ callPc = [c \in calls |-> "call"]
  /\ resp = [c \in calls |-> Nil]
  /\ bodyClosed = [c \in calls |-> FALSE]
  /\ result = [c \in calls |-> NoResult]
  /\ bodyPos = [c \in calls |-> 0]
  /\ bodyEnd = [c \in calls |-> FALSE]
  /\ bodyCloses = [c \in calls |-> 0]
  /\ readers = [c \in calls |-> 0]
  /\ readerPc = [c \in calls |-> "none"]
  /\ event = [c \in calls |-> NoEvent]
  /\ received = [c \in calls |-> <<>>]
  /\ streamClosed = [c \in calls |-> FALSE]
  /\ consumer = [c \in calls |-> "none"]

Init == InitFor("completion", Calls, Ops, Targets, {}, Requests)

\* ------------------------------------------------------------ the request
\* The url each public method formats.
URLFor(method, tgt) ==
  LET base == <<"/">> \o aiPluginID \o <<"/", "bridge", "/", "v1", "/", "completion", "/">> IN
  CASE method = "AgentCompletion" -> base \o <<"agent", "/">> \o tgt \o <<"/", "nostream">>
    [] method = "ServiceCompletion" -> base \o <<"service", "/">> \o tgt \o <<"/", "nostream">>
    [] method = "AgentCompletionStream" -> base \o <<"agent", "/">> \o tgt
    [] method = "ServiceCompletionStream" -> base \o <<"service", "/">> \o tgt
    [] method \in DiscoveryOps ->
         LET url == <<"/">> \o aiPluginID \o <<"/", "bridge", "/", "v1", "/">>
                      \o <<IF method = "GetAgents" THEN "agents" ELSE "services">>
         IN IF tgt # <<>> THEN url \o <<"?", "user_id=">> \o tgt ELSE url

\* The HTTP method each public method passes to http.NewRequest.
HTTPMethod(method) == IF method \in DiscoveryOps THEN "GET" ELSE "POST"

\* url.Parse as http.NewRequest applies it to a url that starts with one
\* slash: a control character is an error; the fragment is what follows the
\* first "#", the query what follows the first "?" before it, the path the
\* rest.
ParseURL(url) ==
  IF Contains(url, <<CTL>>)
  THEN [err |-> <<"parse \"">> \o url \o <<"\": net/url: invalid control character in URL">>,
        Path |-> <<>>, RawQuery |-> <<>>, Fragment |-> <<>>]
  ELSE LET hash == Index(url, "#")
           rest == IF hash = -1 THEN url ELSE SubSeq(url, 1, hash)
           mark == Index(rest, "?")
       IN [err |-> NoError,
           Path |-> IF mark = -1 THEN rest ELSE SubSeq(rest, 1, mark),
           RawQuery |-> IF mark = -1 THEN <<>> ELSE SubSeq(rest, mark + 2, Len(rest)),
           Fragment |-> IF hash = -1 THEN <<>> ELSE SubSeq(url, hash + 2, Len(url))]

\* URL.String() of a URL without scheme and host.
URLString(path, query, fragment) ==
  path \o (IF query # <<>> THEN <<"?">> \o query ELSE <<>>)
       \o (IF fragment # <<>> THEN <<"#">> \o fragment ELSE <<>>)

\* json.Marshal of a Post: role and message always, file_ids unless the
\* slice has no items (omitempty).
MarshalPost(p) ==
  <<Member("role", "string", p.Role), Member("message", "string", p.Message)>>
    \o (IF Len(p.FileIDs.items) = 0 THEN <<>>
        ELSE <<Member("file_ids", "array", p.FileIDs.items)>>)

\* json.Marshal(request) when it succeeds: the members of the JSON object,
\* in field order. posts is always written, null for a nil slice; the
\* other fields are left out when zero, empty or nil (omitempty).
MarshalRequest(req) ==
  <<IF req.Posts.nil THEN Member("posts", "null", <<>>)
    ELSE Member("posts", "array",
                [i \in 1..Len(req.Posts.items) |-> MarshalPost(req.Posts.items[i])])>>
    \o (IF req.MaxGeneratedTokens = 0 THEN <<>>
        ELSE <<Member("max_generated_tokens", "number", req.MaxGeneratedTokens)>>)
    \o (IF req.JSONOutputFormat \in {"none", "empty"} THEN <<>>
        ELSE <<Member("json_output_format", "object", req.JSONOutputFormat)>>)
    \o (IF req.UserID = <<>> THEN <<>> ELSE <<Member("user_id", "string", req.UserID)>>)
    \o (IF req.ChannelID = <<>> THEN <<>> ELSE <<Member("channel_id", "string", req.ChannelID)>>)

\* The last member named key of a JSON object, or a null member when there
\* is none: what json.Unmarshal stores for a field comes from it.
RECURSIVE LastMember(_, _, _)
LastMember(members, key, acc) ==
  IF members = <<>> THEN acc
  ELSE LastMember(Tail(members), key, IF Head(members).k = key THEN Head(members) ELSE acc)

MemberOf(members, key) == LastMember(members, key, Member(key, "null", <<>>))

\* json.Unmarshal of a JSON object into a Post.
UnmarshalPost(members) ==
  LET role == MemberOf(members, "role")
      message == MemberOf(members, "message")
      fileIDs == MemberOf(members, "file_ids")
  IN Post(IF role.ty = "string" THEN role.v ELSE <<>>,
          IF message.ty = "string" THEN message.v ELSE <<>>,
          IF fileIDs.ty = "array" THEN Slice(fileIDs.v) ELSE NilSlice)

\* json.Unmarshal of the members json.Marshal wrote into a zero
\* CompletionRequest: a field without a member keeps its zero value.
UnmarshalRequest(members) ==
  LET posts == MemberOf(members, "posts")
      tokens == MemberOf(members, "max_generated_tokens")
      format == MemberOf(members, "json_output_format")
      userID == MemberOf(members, "user_id")
      channelID == MemberOf(members, "channel_id")
  IN [Posts |-> IF posts.ty = "array"
                THEN Slice([i \in 1..Len(posts.v) |-> UnmarshalPost(posts.v[i])])
                ELSE NilSlice,
      MaxGeneratedTokens |-> IF tokens.ty = "number" THEN tokens.v ELSE 0,
      JSONOutputFormat |-> IF format.ty = "object" THEN format.v ELSE "none",
      UserID |-> IF userID.ty = "string" THEN userID.v ELSE <<>>,
      ChannelID |-> IF channelID.ty = "string" THEN channelID.v ELSE <<>>]

\* json.Marshal(request): the error, if any.
MarshalError(req) ==
  IF req.JSONOutputFormat = "unsupported" THEN <<"json: unsupported value">> ELSE NoError

Fail(err) == [value |-> <<>>, handle |-> FALSE, err |-> err]

\* The public method up to the point where the request is ready to send.
Call(c) ==
  /\ callPc[c] = "call"
  /\ LET merr == IF op[c] \in DiscoveryOps THEN NoError ELSE MarshalError(request[c])
         u == ParseURL(URLFor(op[c], target[c]))
     IN
     IF merr # NoError
     THEN /\ result' = [result EXCEPT ![c] = Fail(<<"failed to marshal request: ">> \o merr)]
          /\ callPc' = [callPc EXCEPT ![c] = "returned"]
          /\ UNCHANGED <<reqBody, reqMethod, reqPath, reqQuery, reqFragment>>
     ELSE IF u.err # NoError
     THEN /\ result' = [result EXCEPT ![c] = Fail(<<"failed to create request: ">> \o u.err)]
          /\ callPc' = [callPc EXCEPT ![c] = "returned"]
          /\ UNCHANGED <<reqBody, reqMethod, reqPath, reqQuery, reqFragment>>
     ELSE /\ reqBody' = [reqBody EXCEPT ![c] =
                 IF op[c] \in DiscoveryOps THEN <<>> ELSE MarshalRequest(request[c])]
          /\ reqMethod' = [reqMethod EXCEPT ![c] = HTTPMethod(op[c])]
          /\ reqPath' = [reqPath EXCEPT ![c] = u.Path]
          /\ reqQuery' = [reqQuery EXCEPT ![c] = u.RawQuery]
          /\ reqFragment' = [reqFragment EXCEPT ![c] = u.Fragment]
          /\ callPc' = [callPc EXCEPT ![c] = "do"]
          /\ UNCHANGED result
  /\ UNCHANGED <<client, scenario, op, target, request, hostCall, roundTrips, resp, bodyClosed,
                 bodyVars, readerVars, streamVars>>

\* -------------------------------------------------------------- transports
\* A RoundTrip that answers a nil response with an empty 200 response.
PluginRoundTripEmptyResponse(apiResp) ==
  IF apiResp = Nil
  THEN [resp |-> [StatusCode |-> 200, Body |-> [lines |-> <<>>, fault |-> FALSE]],
        err |-> NoError]
  ELSE [resp |-> apiResp, err |-> NoError]

\* pluginAPIRoundTripper.RoundTrip on what PluginHTTP returned.
PluginRoundTrip(apiResp) ==
  IF apiResp = Nil
  THEN [resp |-> Nil, err |-> <<"failed to make interplugin request">>]
  ELSE [resp |-> apiResp, err |-> NoError]

\* A removeFirstPath that leaves the path as it is.
removeFirstPathKeepsPrefix(path) == path

\* A removeFirstPath that cuts one byte too far, behind the second slash.
removeFirstPathDropsSlash(path) ==
  LET secondSlash == Index(Tail(path), "/") IN
  IF secondSlash = -1 THEN <<"/">>
  ELSE SubSeq(path, 3 + secondSlash, Len(path))

removeFirstPath(path) ==
  LET secondSlash == Index(Tail(path), "/") IN
  IF secondSlash = -1 THEN <<"/">>
  ELSE SubSeq(path, 2 + secondSlash, Len(path))

\* httptest.ResponseRecorder.Result(): status 200 and an empty body when
\* the handler wrote nothing; the body is in memory and cannot fault.
RecorderResult(w) ==
  IF w = Nothing
  THEN [StatusCode |-> StatusOK, Body |-> [lines |-> <<>>, fault |-> FALSE]]
  ELSE IF "Location" \in DOMAIN w
  THEN [StatusCode |-> w.StatusCode, Location |-> w.Location,
        Body |-> [lines |-> w.lines, fault |-> FALSE]]
  ELSE [StatusCode |-> w.StatusCode, Body |-> [lines |-> w.lines, fault |-> FALSE]]

\* A RoundTrip that reports an error when the router wrote nothing.
AppRoundTripNothingIsError(w) ==
  IF w = Nothing
  THEN [resp |-> Nil, err |-> <<"no response written">>]
  ELSE [resp |-> RecorderResult(w), err |-> NoError]

\* appAPIRoundTripper.RoundTrip on what the router wrote into the recorder.
AppRoundTrip(w) == [resp |-> RecorderResult(w), err |-> NoError]

\* The *url.Error http.Client.Do wraps an error in.
URLError(method, url, err) ==
  <<IF method = "GET" THEN "Get \"" ELSE "Post \"">> \o url \o <<"\": ">> \o err

\* resp.Header.Get("Location")
Location(r) == IF "Location" \in DOMAIN r THEN r.Location ELSE <<>>

\* The redirects http.Client follows before it gives up.
MaxRedirects == 10

\* redirectBehavior of net/http: whether the response is a redirect, the
\* method of the next request and whether it carries the body again.
RedirectBehavior(method, r) ==
  CASE r.StatusCode \in {301, 302, 303} ->
         [shouldRedirect |-> TRUE, includeBody |-> FALSE,
          redirectMethod |-> "GET"]
    [] r.StatusCode \in {307, 308} ->
         [shouldRedirect |-> TRUE, includeBody |-> TRUE, redirectMethod |-> method]
    [] OTHER ->
         [shouldRedirect |-> FALSE, includeBody |-> FALSE, redirectMethod |-> method]

\* A Do that sends the request once more when the first round trip failed.
AfterDoRetries(c, rt, sent) ==
  /\ roundTrips' = [roundTrips EXCEPT ![c] = @ + 1]
  /\ reqPath' = [reqPath EXCEPT ![c] = sent]
  /\ UNCHANGED <<reqBody, reqMethod, reqQuery, reqFragment>>
  /\ IF rt.err # NoError /\ roundTrips[c] = 0
     THEN UNCHANGED <<resp, result, callPc>>
     ELSE IF rt.err # NoError
     THEN /\ result' = [result EXCEPT ![c] = Fail(<<"failed to execute request: ">> \o rt.err)]
          /\ callPc' = [callPc EXCEPT ![c] = "returned"]
          /\ UNCHANGED resp
     ELSE /\ resp' = [resp EXCEPT ![c] = rt.resp]
          /\ callPc' = [callPc EXCEPT ![c] = "gotResponse"]
          /\ UNCHANGED result

\* c.httpClient.Do(req) after a RoundTrip that was handed the path sent and
\* returned rt: an error ends the call; a redirect with a Location makes
\* the next request, unless MaxRedirects requests were made already; any
\* other response is the response of Do.
AfterDo(c, rt, sent) ==
  /\ roundTrips' = [roundTrips EXCEPT ![c] = @ + 1]
  /\ IF rt.err # NoError
     THEN /\ result' = [result EXCEPT ![c] =
                 Fail(<<"failed to execute request: ">>
                        \o URLError(HTTPMethod(op[c]),
                                    URLString(sent, reqQuery[c], reqFragment[c]), rt.err))]
          /\ callPc' = [callPc EXCEPT ![c] = "returned"]
          /\ reqPath' = [reqPath EXCEPT ![c] = sent]
          /\ UNCHANGED <<resp, reqBody, reqMethod, reqQuery, reqFragment>>
     ELSE LET rb == RedirectBehavior(reqMethod[c], rt.resp)
              loc == Location(rt.resp)
              u == ParseURL(loc)
          IN
          IF rb.shouldRedirect /\ loc # <<>>
          THEN IF roundTrips'[c] >= MaxRedirects
               THEN /\ result' = [result EXCEPT ![c] =
                           Fail(<<"failed to execute request: ">>
                                  \o URLError(HTTPMethod(op[c]), loc,
                                              <<"stopped after 10 redirects">>))]
                    /\ callPc' = [callPc EXCEPT ![c] = "returned"]
                    /\ reqPath' = [reqPath EXCEPT ![c] = sent]
                    /\ UNCHANGED <<resp, reqBody, reqMethod, reqQuery, reqFragment>>
               ELSE /\ reqMethod' = [reqMethod EXCEPT ![c] = rb.redirectMethod]
                    /\ reqBody' = [reqBody EXCEPT ![c] = IF rb.includeBody THEN @ ELSE <<>>]
                    /\ reqPath' = [reqPath EXCEPT ![c] = u.Path]
                    /\ reqQuery' = [reqQuery EXCEPT ![c] = u.RawQuery]
                    /\ reqFragment' = [reqFragment EXCEPT ![c] = u.Fragment]
                    /\ UNCHANGED <<resp, result, callPc>>
          ELSE /\ resp' = [resp EXCEPT ![c] = rt.resp]
               /\ callPc' = [callPc EXCEPT ![c] = "gotResponse"]
               /\ reqPath' = [reqPath EXCEPT ![c] = sent]
               /\ UNCHANGED <<result, reqBody, reqMethod, reqQuery, reqFragment>>

\* c.httpClient.Do(req) over the Sandboxed Relay transport.
DoPlugin(c) ==
  /\ callPc[c] = "do"
  /\ client.transport = "pluginAPIRoundTripper"
  /\ \E apiResp \in {Nil} \cup HostResponses(scenario) :
       /\ hostCall' = [hostCall EXCEPT ![c] =
              [api |-> "PluginHTTP", method |-> reqMethod[c], path |-> reqPath[c],
               query |-> reqQuery[c], body |-> reqBody[c], returned |-> apiResp]]
       /\ AfterDo(c, PluginRoundTrip(apiResp), reqPath[c])
  /\ UNCHANGED <<client, scenario, op, target, request, bodyClosed,
                 bodyVars, readerVars, streamVars>>

\* c.httpClient.Do(req) over the Direct Dispatch transport.
DoApp(c) ==
  /\ callPc[c] = "do"
  /\ client.transport = "appAPIRoundTripper"
  /\ \E w \in RouterWritesIn(scenario) :
       /\ hostCall' = [hostCall EXCEPT ![c] =
              [api |-> "ServeInternalPluginRequest", userID |-> client.userID,
               method |-> reqMethod[c], path |-> removeFirstPath(reqPath[c]),
               query |-> reqQuery[c], body |-> reqBody[c],
               source |-> mattermostServerID, dest |-> aiPluginID, wrote |-> w]]
       /\ AfterDo(c, AppRoundTrip(w), removeFirstPath(reqPath[c]))
  /\ UNCHANGED <<client, scenario, op, target, request, bodyClosed,
                 bodyVars, readerVars, streamVars>>

\* --------------------------------------------------------- response bodies
\* The bytes io.ReadAll returns: the lines joined by newlines.
RECURSIVE Join(_)
Join(lines) ==
  IF lines = <<>> THEN <<>>
  ELSE IF Len(lines) = 1 THEN lines[1]
  ELSE lines[1] \o <<"\n">> \o Join(Tail(lines))

\* io.ReadAll(resp.Body): [data, err].
ReadAll(body) ==
  [data |-> Join(body.lines),
   err |-> IF body.fault THEN <<"unexpected EOF">> ELSE NoError]

\* A status error worded as the error of a failed round trip.
StatusErrorAsExecuteError(status, detail) ==
  <<"failed to execute request: ", ToString(status), ": ">> \o detail

StatusError(status, detail) ==
  <<"request failed with status ", ToString(status), ": ">> \o detail

\* The error both completion paths build from a non-OK response whose body
\* was read.
ErrorFromBody(status, respBody) ==
  LET errResp == UnmarshalField(respBody, "error") IN
  IF errResp.err # NoError
  THEN StatusError(status, respBody)
  ELSE StatusError(status, errResp.val)

\* ------------------------------------------------- doCompletionRequest
\* A doCompletionRequest that decodes the success body as an ErrorResponse.
CompletionResultWrongField(r) ==
  LET read == ReadAll(r.Body) IN
  IF read.err # NoError
  THEN Fail(<<"failed to read response body: ">> \o read.err)
  ELSE IF r.StatusCode # StatusOK
  THEN Fail(ErrorFromBody(r.StatusCode, read.data))
  ELSE LET completionResp == UnmarshalField(read.data, "error") IN
       IF completionResp.err # NoError
       THEN Fail(<<"failed to unmarshal response: ">> \o completionResp.err)
       ELSE [value |-> completionResp.val, handle |-> FALSE, err |-> NoError]

\* A doCompletionRequest that accepts every 2xx status.
CompletionResultAccepts2xx(r) ==
  LET read == ReadAll(r.Body) IN
  IF read.err # NoError
  THEN Fail(<<"failed to read response body: ">> \o read.err)
  ELSE IF r.StatusCode \notin 200..299
  THEN Fail(ErrorFromBody(r.StatusCode, read.data))
  ELSE LET completionResp == UnmarshalField(read.data, "completion") IN
       IF completionResp.err # NoError
       THEN Fail(<<"failed to unmarshal response: ">> \o completionResp.err)
       ELSE [value |-> completionResp.val, handle |-> FALSE, err |-> NoError]

\* What doCompletionRequest returns for a response, from io.ReadAll on.
CompletionResult(r) ==
  LET read == ReadAll(r.Body) IN
  IF read.err # NoError
  THEN Fail(<<"failed to read response body: ">> \o read.err)
  ELSE IF r.StatusCode # StatusOK
  THEN Fail(ErrorFromBody(r.StatusCode, read.data))
  ELSE LET completionResp == UnmarshalField(read.data, "completion") IN
       IF completionResp.err # NoError
       THEN Fail(<<"failed to unmarshal response: ">> \o completionResp.err)
       ELSE [value |-> completionResp.val, handle |-> FALSE, err |-> NoError]

\* doCompletionRequest from io.ReadAll to the return statement.
SyncReadBody(c) ==
  /\ callPc[c] = "gotResponse"
  /\ op[c] \in Ops \ StreamingOps
  /\ bodyPos' = [bodyPos EXCEPT ![c] = Len(resp[c].Body.lines)]
  /\ bodyEnd' = [bodyEnd EXCEPT ![c] = TRUE]
  /\ result' = [result EXCEPT ![c] = CompletionResult(resp[c])]
  /\ callPc' = [callPc EXCEPT ![c] = "deferClose"]
  /\ UNCHANGED <<client, scenario, op, target, request, reqBody, reqMethod, reqPath, reqQuery, reqFragment, hostCall, roundTrips, resp,
                 bodyClosed, bodyCloses, readerVars, streamVars>>

\* A GetAgents / GetServices that reports an empty list as an error.
ListResultEmptyIsError(r, key) ==
  LET read == ReadAll(r.Body) IN
  IF read.err # NoError
  THEN Fail(<<"failed to read response body: ">> \o read.err)
  ELSE IF r.StatusCode # StatusOK
  THEN Fail(ErrorFromBody(r.StatusCode, read.data))
  ELSE LET listResp == UnmarshalList(read.data, key) IN
       IF listResp.err # NoError
       THEN Fail(<<"failed to unmarshal response: ">> \o listResp.err)
       ELSE IF listResp.val = <<>>
       THEN Fail(<<"no ", key>>)
       ELSE [value |-> listResp.val, handle |-> FALSE, err |-> NoError]

\* What GetAgents (key "agents") and GetServices (key "services") return
\* for a response, from io.ReadAll on.
ListResult(r, key) ==
  LET read == ReadAll(r.Body) IN
  IF read.err # NoError
  THEN Fail(<<"failed to read response body: ">> \o read.err)
  ELSE IF r.StatusCode # StatusOK
  THEN Fail(ErrorFromBody(r.StatusCode, read.data))
  ELSE LET listResp == UnmarshalList(read.data, key) IN
       IF listResp.err # NoError
       THEN Fail(<<"failed to unmarshal response: ">> \o listResp.err)
       ELSE [value |-> listResp.val, handle |-> FALSE, err |-> NoError]

\* GetAgents and GetServices from io.ReadAll to the return statement.
GetReadBody(c) ==
  /\ callPc[c] = "gotResponse"
  /\ op[c] \in DiscoveryOps
  /\ bodyPos' = [bodyPos EXCEPT ![c] = Len(resp[c].Body.lines)]
  /\ bodyEnd' = [bodyEnd EXCEPT ![c] = TRUE]
  /\ result' = [result EXCEPT ![c] =
         ListResult(resp[c], IF op[c] = "GetAgents" THEN "agents" ELSE "services")]
  /\ callPc' = [callPc EXCEPT ![c] = "deferClose"]
  /\ UNCHANGED <<client, scenario, op, target, request, reqBody, reqMethod, reqPath, reqQuery, reqFragment, hostCall, roundTrips, resp,
                 bodyClosed, bodyCloses, readerVars, streamVars>>

\* A return without the deferred resp.Body.Close().
SyncReturnsWithoutClose(c) ==
  /\ callPc[c] = "deferClose"
  /\ callPc' = [callPc EXCEPT ![c] = "returned"]
  /\ UNCHANGED <<client, scenario, op, target, request, reqBody, reqMethod, reqPath, reqQuery, reqFragment, hostCall, roundTrips, resp,
                 bodyClosed, result, bodyVars, readerVars, streamVars>>

\* The deferred resp.Body.Close() of doCompletionRequest, GetAgents and
\* GetServices.
SyncDeferClose(c) ==
  /\ callPc[c] = "deferClose"
  /\ bodyCloses' = [bodyCloses EXCEPT ![c] = @ + 1]
  /\ callPc' = [callPc EXCEPT ![c] = "returned"]
  /\ UNCHANGED <<client, scenario, op, target, request, reqBody, reqMethod, reqPath, reqQuery, reqFragment, hostCall, roundTrips, resp,
                 bodyClosed, result, bodyPos, bodyEnd, readerVars, streamVars>>

\* ---------------------------------------------------- doStreamingRequest
\* The error doStreamingRequest returns for a non-OK response.
StreamingStatusError(r) ==
  LET read == ReadAll(r.Body) IN
  IF read.err # NoError
  THEN <<"request failed with status ", ToString(r.StatusCode)>>
  ELSE ErrorFromBody(r.StatusCode, read.data)

\* The status check: a non-OK response is read and turned into the error
\* to return; otherwise the channel is made.
StreamCheckStatus(c) ==
  /\ callPc[c] = "gotResponse"
  /\ op[c] \in StreamingOps
  /\ IF resp[c].StatusCode # StatusOK
     THEN /\ bodyPos' = [bodyPos EXCEPT ![c] = Len(resp[c].Body.lines)]
          /\ bodyEnd' = [bodyEnd EXCEPT ![c] = TRUE]
          /\ result' = [result EXCEPT ![c] = Fail(StreamingStatusError(resp[c]))]
          /\ callPc' = [callPc EXCEPT ![c] = "deferred"]
     ELSE /\ callPc' = [callPc EXCEPT ![c] = "go"]
          /\ UNCHANGED <<bodyPos, bodyEnd, result>>
  /\ UNCHANGED <<client, scenario, op, target, request, reqBody, reqMethod, reqPath, reqQuery, reqFragment, hostCall, roundTrips, resp,
                 bodyClosed, bodyCloses, readerVars, streamVars>>

\* The go statement: the reader goroutine starts.
StreamGo(c) ==
  /\ callPc[c] = "go"
  /\ readers' = [readers EXCEPT ![c] = @ + 1]
  /\ readerPc' = [readerPc EXCEPT ![c] = "scan"]
  /\ callPc' = [callPc EXCEPT ![c] = "mark"]
  /\ UNCHANGED <<client, scenario, op, target, request, reqBody, reqMethod, reqPath, reqQuery, reqFragment, hostCall, roundTrips, resp,
                 bodyClosed, result, bodyVars, event, streamVars>>

\* A return that forgets to set bodyClosed.
StreamMarkForgetsFlag(c) ==
  /\ callPc[c] = "mark"
  /\ result' = [result EXCEPT ![c] = [value |-> <<>>, handle |-> TRUE, err |-> NoError]]
  /\ callPc' = [callPc EXCEPT ![c] = "deferred"]
  /\ UNCHANGED <<client, scenario, op, target, request, reqBody, reqMethod, reqPath, reqQuery, reqFragment, hostCall, roundTrips, resp,
                 bodyClosed, bodyVars, readerVars, streamVars>>

\* bodyClosed = true, and the return statement's result.
StreamMark(c) ==
  /\ callPc[c] = "mark"
  /\ bodyClosed' = [bodyClosed EXCEPT ![c] = TRUE]
  /\ result' = [result EXCEPT ![c] = [value |-> <<>>, handle |-> TRUE, err |-> NoError]]
  /\ callPc' = [callPc EXCEPT ![c] = "deferred"]
  /\ UNCHANGED <<client, scenario, op, target, request, reqBody, reqMethod, reqPath, reqQuery, reqFragment, hostCall, roundTrips, resp,
                 bodyVars, readerVars, streamVars>>

\* A deferred function that closes without looking at bodyClosed.
DeferredClosesAlways(closed) == 1

\* A deferred function that never closes.
DeferredClosesNever(closed) == 0

\* Number of Close calls the deferred function of doStreamingRequest makes.
DeferredCloses(closed) == IF ~closed THEN 1 ELSE 0

\* The deferred function runs and the call returns; with a handle, the
\* caller can start to consume.
StreamDeferred(c) ==
  /\ callPc[c] = "deferred"
  /\ bodyCloses' = [bodyCloses EXCEPT ![c] = @ + DeferredCloses(bodyClosed[c])]
  /\ callPc' = [callPc EXCEPT ![c] = "returned"]
  /\ consumer' = [consumer EXCEPT ![c] = IF result[c].handle THEN "reading" ELSE @]
  /\ UNCHANGED <<client, scenario, op, target, request, reqBody, reqMethod, reqPath, reqQuery, reqFragment, hostCall, roundTrips, resp,
                 bodyClosed, result, bodyPos, bodyEnd, readerVars, received, streamClosed>>

\* ------------------------------------------------------ the reader goroutine
\* json.Unmarshal([]byte(data), &event) for a TextStreamEvent: [err, event].
UnmarshalEvent(data) ==
  LET syn == SyntaxError(data) IN
  IF syn # NoError THEN [err |-> syn, event |-> NoEvent]
  ELSE LET ms == JSONDoc(TrimSpace(data)[1]).members IN
       [err |-> NoError,
        event |-> [Type |-> FieldValue(ms, "type", <<EventTypeText>>)[1],
                   Value |-> FieldValue(ms, "value", <<>>)]]

ParseErrorEvent(err) ==
  [Type |-> EventTypeError, Value |-> <<"error parsing stream event: ">> \o err]

ReadErrorEvent(err) ==
  [Type |-> EventTypeError, Value |-> <<"error reading stream: ">> \o err]

IsTerminal(ev) == ev.Type = EventTypeEnd \/ ev.Type = EventTypeError

\* A scan loop without the check for an empty payload.
ProcessLineKeepsEmptyPayload(line) ==
  IF ~HasPrefix(line, DataPrefix) THEN [pc |-> "scan", event |-> NoEvent]
  ELSE LET data == TrimPrefix(line, DataPrefix)
           parsed == UnmarshalEvent(data)
       IN IF parsed.err # NoError
          THEN [pc |-> "sendParseError", event |-> ParseErrorEvent(parsed.err)]
          ELSE [pc |-> "send", event |-> parsed.event]

\* One iteration of the scan loop on a line, up to its send or continue:
\* where the reader goes next and the event it sends there.
ProcessLine(line) ==
  IF ~HasPrefix(line, DataPrefix) THEN [pc |-> "scan", event |-> NoEvent]
  ELSE LET data == TrimPrefix(line, DataPrefix)
           parsed == UnmarshalEvent(data)
       IN IF data = <<>> THEN [pc |-> "scan", event |-> NoEvent]
          ELSE IF parsed.err # NoError
          THEN [pc |-> "sendParseError", event |-> ParseErrorEvent(parsed.err)]
          ELSE [pc |-> "send", event |-> parsed.event]

\* scanner.Err() after Scan returned false: nil at a clean end of input.
ScannerErr(body) == IF body.fault THEN <<"unexpected EOF">> ELSE NoError

\* A reader whose loop never ends: Scan returning false sends it back to Scan.
AfterLoopNeverEnds(body) == [pc |-> "scan", event |-> NoEvent]

\* After the loop: the event to send for the scanner's error, if any.
AfterLoop(body) ==
  IF ScannerErr(body) # NoError
  THEN [pc |-> "sendReadError", event |-> ReadErrorEvent(ScannerErr(body))]
  ELSE [pc |-> "closeStream", event |-> NoEvent]

\* scanner.Scan() and the loop body up to the send, or the code after the
\* loop when Scan returns false.
ReaderScan(c) ==
  /\ readerPc[c] = "scan"
  /\ LET body == resp[c].Body
         more == bodyPos[c] < Len(body.lines)
         next == IF more THEN ProcessLine(body.lines[bodyPos[c] + 1]) ELSE AfterLoop(body)
     IN /\ bodyPos' = [bodyPos EXCEPT ![c] = IF more THEN @ + 1 ELSE @]
        /\ bodyEnd' = [bodyEnd EXCEPT ![c] = ~more]
        /\ readerPc' = [readerPc EXCEPT ![c] = next.pc]
        /\ event' = [event EXCEPT ![c] = next.event]
  /\ UNCHANGED <<client, scenario, callVars, bodyCloses, readers, streamVars>>

SendPcs == {"send", "sendParseError", "sendReadError"}

\* A channel that hands the newest value over first.
SendOnStreamReordered(q, ev) == <<ev>> \o q

\* What the consumer has received once it took ev from the channel: a Go
\* channel hands over the values in the order they were sent.
SendOnStream(q, ev) == Append(q, ev)

\* A reader without the check for an end or error event after the send.
AfterSendKeepReading(pc, ev) ==
  IF pc = "send" THEN "scan" ELSE "closeStream"

\* A reader that continues with the next line after a malformed frame.
AfterSendContinueOnParseError(pc, ev) ==
  IF pc = "sendParseError" \/ (pc = "send" /\ ~IsTerminal(ev)) THEN "scan" ELSE "closeStream"

\* Where the reader continues once its send completed.
AfterSend(pc, ev) ==
  IF pc = "send" /\ ~IsTerminal(ev) THEN "scan" ELSE "closeStream"

\* A send that lands on the channel of another call's stream.
DeliverCrossed(c) ==
  /\ readerPc[c] \in SendPcs
  /\ consumer[c] = "reading"
  /\ \E d \in DOMAIN received :
       /\ d # c \/ DOMAIN received = {c}
       /\ received' = [received EXCEPT ![d] = Append(@, event[c])]
  /\ readerPc' = [readerPc EXCEPT ![c] = "closeStream"]
  /\ event' = [event EXCEPT ![c] = NoEvent]
  /\ UNCHANGED <<client, scenario, callVars, bodyVars, readers, streamClosed, consumer>>

\* A send on a buffered channel: it completes without a receiver, the event
\* waiting in the buffer.
DeliverBuffered(c) ==
  /\ readerPc[c] \in SendPcs
  /\ readerPc' = [readerPc EXCEPT ![c] = AfterSend(readerPc[c], event[c])]
  /\ event' = [event EXCEPT ![c] = NoEvent]
  /\ UNCHANGED <<client, scenario, callVars, bodyVars, readers, streamVars>>

\* The channel is unbuffered: a send completes when the consumer receives.
Deliver(c) ==
  /\ readerPc[c] \in SendPcs
  /\ consumer[c] = "reading"
  /\ received' = [received EXCEPT ![c] = SendOnStream(@, event[c])]
  /\ readerPc' = [readerPc EXCEPT ![c] = AfterSend(readerPc[c], event[c])]
  /\ event' = [event EXCEPT ![c] = NoEvent]
  /\ UNCHANGED <<client, scenario, callVars, bodyVars, readers, streamClosed, consumer>>

\* Deferred calls run in the order written: the first to run closes the body.
ReaderClosesBodyFirst(c) ==
  /\ readerPc[c] = "closeStream"
  /\ bodyCloses' = [bodyCloses EXCEPT ![c] = @ + 1]
  /\ readerPc' = [readerPc EXCEPT ![c] = "closeBody"]
  /\ UNCHANGED <<client, scenario, callVars, bodyPos, bodyEnd, readers, event, streamVars>>

\* The deferred close(stream).
ReaderCloseStream(c) ==
  /\ readerPc[c] = "closeStream"
  /\ streamClosed' = [streamClosed EXCEPT ![c] = TRUE]
  /\ readerPc' = [readerPc EXCEPT ![c] = "closeBody"]
  /\ UNCHANGED <<client, scenario, callVars, bodyVars, readers, event, received, consumer>>

\* The deferred resp.Body.Close().
ReaderCloseBody(c) ==
  /\ readerPc[c] = "closeBody"
  /\ bodyCloses' = [bodyCloses EXCEPT ![c] = @ + 1]
  /\ readerPc' = [readerPc EXCEPT ![c] = "exited"]
  /\ UNCHANGED <<client, scenario, callVars, bodyPos, bodyEnd, readers, event, streamVars>>

\* ------------------------------------------------------------ the consumer
\* The consumer's receive finds the channel closed.
ObserveClosed(c) ==
  /\ consumer[c] = "reading"
  /\ streamClosed[c]
  /\ consumer' = [consumer EXCEPT ![c] = "done"]
  /\ UNCHANGED <<client, scenario, callVars, bodyVars, readerVars, received, streamClosed>>

\* The consumer stops receiving and drops the handle.
Abandon(c) ==
  /\ consumer[c] = "reading"
  /\ consumer' = [consumer EXCEPT ![c] = "abandoned"]
  /\ UNCHANGED <<client, scenario, callVars, bodyVars, readerVars, received, streamClosed>>

\* ------------------------------------------------------------ specification
Next ==
  \E c \in DOMAIN callPc :
    \/ Call(c)
    \/ DoPlugin(c)
    \/ DoApp(c)
    \/ SyncReadBody(c)
    \/ SyncDeferClose(c)
    \/ StreamCheckStatus(c)
    \/ StreamGo(c)
    \/ StreamMark(c)
    \/ StreamDeferred(c)
    \/ ReaderScan(c)
    \/ Deliver(c)
    \/ ReaderCloseStream(c)
    \/ ReaderCloseBody(c)
    \/ ObserveClosed(c)
    \/ Abandon(c)

Spec == Init /\ [][Next]_vars

\* The steps of the caller's goroutine inside doStreamingRequest once the
\* response is accepted, and the steps of the reader's goroutine.
CallerStep(c) == StreamGo(c) \/ StreamMark(c) \/ StreamDeferred(c)
ReaderStep(c) ==
  ReaderScan(c) \/ Deliver(c) \/ ReaderCloseStream(c) \/ ReaderCloseBody(c)

\* The scheduling the liveness of a stream rests on: the Go scheduler runs
\* every runnable goroutine eventually, so the caller finishes
\* doStreamingRequest and the reader takes the step it can take; a send is
\* such a step once the consumer is receiving.
Fairness ==
  \A c \in Calls : WF_vars(CallerStep(c)) /\ WF_vars(ReaderStep(c))

\* One call of AgentCompletionStream, and its steps (ServiceCompletionStream
\* differs in the url only and runs the same doStreamingRequest).
InitLive == InitFor("stream", Calls, {"AgentCompletionStream"}, Targets, {}, Requests)

NextLive ==
  \E c \in DOMAIN callPc :
    \/ Call(c)
    \/ DoPlugin(c)
    \/ DoApp(c)
    \/ StreamCheckStatus(c)
    \/ StreamGo(c)
    \/ StreamMark(c)
    \/ StreamDeferred(c)
    \/ ReaderScan(c)
    \/ Deliver(c)
    \/ ReaderCloseStream(c)
    \/ ReaderCloseBody(c)
    \/ ObserveClosed(c)
    \/ Abandon(c)

\* The streaming calls under fair scheduling.
SpecLive == InitLive /\ [][NextLive]_vars /\ Fairness

\* One call of any of the six public methods, with any argument.
InitOps == InitFor("operations", Calls, AllOps, AnyTargets, AnyUserIDs, Requests)

NextOps ==
  \E c \in DOMAIN callPc :
    \/ Call(c)
    \/ DoPlugin(c)
    \/ DoApp(c)
    \/ SyncReadBody(c)
    \/ GetReadBody(c)
    \/ SyncDeferClose(c)
    \/ StreamCheckStatus(c)
    \/ StreamGo(c)
    \/ StreamMark(c)
    \/ StreamDeferred(c)
    \/ ReaderScan(c)
    \/ Deliver(c)
    \/ ReaderCloseStream(c)
    \/ ReaderCloseBody(c)
    \/ ObserveClosed(c)
    \/ Abandon(c)

SpecOps == InitOps /\ [][NextOps]_vars

\* One completion call with any request, up to the request it builds.
InitWire == InitFor("wire", Calls, {"AgentCompletion"}, Targets, {}, WireRequests)

NextWire == \E c \in DOMAIN callPc : Call(c)

SpecWire == InitWire /\ [][NextWire]_vars

\* Two callers use one Client at the same time.
ConcurrentCalls == {1, 2}

ConcurrentOps == {"AgentCompletion", "AgentCompletionStream", "GetAgents"}

InitConcurrent ==
  InitFor("concurrent", ConcurrentCalls, ConcurrentOps, Targets, {<<>>},
          {r \in Requests : r.JSONOutputFormat = "none"})

SpecConcurrent == InitConcurrent /\ [][NextOps]_vars

\* Longest request path handed to a round trip.
MaxPathLen == 4

\* The paths that start with a slash: slashes and segments in any order.
Paths == {p \in SeqsUpTo({"/", "a", "b"}, MaxPathLen) : p # <<>> /\ p[1] = "/"}

\* appAPIRoundTripper.RoundTrip is handed a request of either method with
\* any such path, with or without a query.
InitPath ==
  /\ client \in {NewClientFromApp(u) : u \in UserIDs}
  /\ scenario = "concurrent"
  /\ op = [c \in Calls |-> "AgentCompletion"]
  /\ target \in [Calls -> Targets]
  /\ request \in [Calls -> {r \in Requests : r.JSONOutputFormat = "none"}]
  /\ reqMethod \in [Calls -> {"GET", "POST"}]
  /\ reqBody = [c \in Calls |-> IF reqMethod[c] = "POST" THEN MarshalRequest(request[c]) ELSE <<>>]
  /\ reqPath \in [Calls -> Paths]
  /\ reqQuery \in [Calls -> {<<>>, <<"user_id=", "user1">>}]
  /\ reqFragment = [c \in Calls |-> <<>>]
  /\ hostCall = [c \in Calls |-> NoHostCall]
  /\ roundTrips = [c \in Calls |-> 0]
  /\ callPc = [c \in Calls |-> "do"]
  /\ resp = [c \in Calls |-> Nil]
  /\ bodyClosed = [c \in Calls |-> FALSE]
  /\ result = [c \in Calls |-> NoResult]
  /\ bodyPos = [c \in Calls |-> 0]
  /\ bodyEnd = [c \in Calls |-> FALSE]
  /\ bodyCloses = [c \in Calls |-> 0]
  /\ readers = [c \in Calls |-> 0]
  /\ readerPc = [c \in Calls |-> "none"]
  /\ event = [c \in Calls |-> NoEvent]
  /\ received = [c \in Calls |-> <<>>]
  /\ streamClosed = [c \in Calls |-> FALSE]
  /\ consumer = [c \in Calls |-> "none"]

NextPath == \E c \in DOMAIN callPc : DoApp(c)

\* One round trip over Direct Dispatch of a request with any path.
SpecPath == InitPath /\ [][NextPath]_vars

\* ================================================================== claims
Last(q) == q[Len(q)]

\* The events the reader has put on the channel: those received, and the
\* one whose send is in progress.
Published(c) ==
  received[c] \o (IF readerPc[c] \in SendPcs THEN <<event[c]>> ELSE <<>>)

HasStream(c) == op[c] \in StreamingOps /\ readerPc[c] # "none"

\* A line that carries a frame: the marker and a payload.
IsDataFrame(line) == HasPrefix(line, DataPrefix) /\ Len(line) > Len(DataPrefix)

Payload(line) == SubSeq(line, Len(DataPrefix) + 1, Len(line))

IsMalformed(line) == IsDataFrame(line) /\ SyntaxError(Payload(line)) # NoError

\* The event a data frame stands for: the decoded one, or the error event
\* the decoder makes of a frame that does not parse.
FrameEvent(line) ==
  LET parsed == UnmarshalEvent(Payload(line)) IN
  IF parsed.err # NoError THEN ParseErrorEvent(parsed.err) ELSE parsed.event

RECURSIVE FrameEvents(_)
FrameEvents(lines) ==
  IF lines = <<>> THEN <<>>
  ELSE (IF IsDataFrame(Head(lines)) THEN <<FrameEvent(Head(lines))>> ELSE <<>>)
       \o FrameEvents(Tail(lines))

\* The events of a whole body in body order: one per data frame, and the
\* read error after them when the body faults.
DecodedEvents(body) ==
  FrameEvents(body.lines)
    \o (IF body.fault THEN <<ReadErrorEvent(<<"unexpected EOF">>)>> ELSE <<>>)

\* C1: what the consumer has received from the stream is at every moment a
\* prefix of the events of the body's data frames in body order: nothing is
\* reordered, duplicated or dropped between the reader and the consumer.
C1_ReceivedIsPrefix ==
  \A c \in Calls :
    HasStream(c) => IsPrefix(received[c], DecodedEvents(resp[c].Body))

C1_Witness ==
  \E c \in Calls :
    /\ Len(received[c]) >= 2
    /\ received[c][1] # received[c][2]
    /\ Len(resp[c].Body.lines) = 3
    /\ IsDataFrame(resp[c].Body.lines[2])
    /\ ~IsDataFrame(resp[c].Body.lines[1])

TerminalPublished(c) ==
  \E i \in 1..Len(Published(c)) : IsTerminal(Published(c)[i])

TextA == [Type |-> EventTypeText, Value |-> <<"a">>]
TextB == [Type |-> EventTypeText, Value |-> <<"b">>]
End == [Type |-> EventTypeEnd, Value |-> <<>>]

\* C2: once the reader has published an End or Error event it publishes
\* no further event and scans no further line, whatever follows in the
\* body; and the body text(a), text(b), end gives exactly Text(a), Text(b),
\* End by the time the channel is closed.
C2_StopsAfterTerminal ==
  /\ [][\A c \in Calls :
          TerminalPublished(c) =>
            /\ Published(c)' = Published(c)
            /\ bodyPos'[c] = bodyPos[c]]_vars
  /\ [](\A c \in Calls :
          ( /\ HasStream(c)
            /\ streamClosed[c]
            /\ resp[c].Body.lines = <<DataPrefix \o <<DocTextA>>, DataPrefix \o <<DocTextB>>,
                                      DataPrefix \o <<DocEnd>>>> )
          => received[c] = <<TextA, TextB, End>>)

C2_Witness ==
  \E c \in Calls :
    /\ readerPc[c] = "exited"
    /\ received[c] = <<TextA, End>>
    /\ bodyPos[c] = 2
    /\ Len(resp[c].Body.lines) = 3
    /\ IsDataFrame(resp[c].Body.lines[3])

\* C3: a stream that was read until the channel closed holds exactly one
\* End or Error event, and it is the last event; in particular a body that
\* ends or faults before a terminal frame gives a final Error event.
C3_ExactlyOneTerminal ==
  \A c \in Calls :
    (HasStream(c) /\ streamClosed[c]) =>
      /\ received[c] # <<>>
      /\ IsTerminal(Last(received[c]))
      /\ \A i \in 1..(Len(received[c]) - 1) : ~IsTerminal(received[c][i])

\* The reader has scanned the malformed frame at line i.
ScannedMalformed(c, i) ==
  /\ HasStream(c)
  /\ i \in 1..bodyPos[c]
  /\ IsMalformed(resp[c].Body.lines[i])

\* C4: when the reader meets a frame that does not parse it publishes one
\* Error event for it and stops: no later line is scanned, that Error is
\* the last event published and the only synthesized one, and the call
\* itself returns the handle without an error.
C4_MalformedFrameStops ==
  \A c \in Calls :
    \A i \in 1..bodyPos[c] :
      ScannedMalformed(c, i) =>
        LET errEvent == FrameEvent(resp[c].Body.lines[i]) IN
        /\ bodyPos[c] = i
        /\ readerPc[c] \in {"sendParseError", "closeStream", "closeBody", "exited"}
        /\ Published(c) # <<>>
        /\ Last(Published(c)) = errEvent
        /\ errEvent.Type = EventTypeError
        /\ Published(c) = FrameEvents(SubSeq(resp[c].Body.lines, 1, i))
        /\ \A j \in 1..(Len(Published(c)) - 1) : ~IsTerminal(Published(c)[j])
        /\ (callPc[c] = "returned" => (result[c].handle /\ result[c].err = NoError))

C4_Witness ==
  \E c \in Calls :
    /\ ScannedMalformed(c, 2)
    /\ readerPc[c] = "exited"
    /\ Len(received[c]) = 2
    /\ Len(resp[c].Body.lines) = 3
    /\ IsDataFrame(resp[c].Body.lines[3])
    /\ callPc[c] = "returned"

\* C5: a consumer that stopped receiving before the stream ended does not
\* leave the connection open: no state has the consumer gone, the reader
\* blocked in its send (which nothing can complete any more) and the
\* response body still unclosed.
C5_AbandonedStreamIsClosed ==
  \A c \in Calls :
    (consumer[c] = "abandoned" /\ readerPc[c] \in SendPcs) => bodyCloses[c] >= 1

\* C6: the response body of a streaming call is never closed twice, and
\* it has been closed exactly once when the call returned an error for the
\* response and when the reader has exited, whatever made it exit.
C6_BodyClosedExactlyOnce ==
  \A c \in Calls :
    op[c] \in StreamingOps =>
      /\ bodyCloses[c] <= 1
      /\ (resp[c] = Nil => bodyCloses[c] = 0)
      /\ (readerPc[c] = "exited" => bodyCloses[c] = 1)
      /\ (callPc[c] = "returned" /\ resp[c] # Nil /\ ~result[c].handle => bodyCloses[c] = 1)
      /\ (callPc[c] = "returned" /\ result[c].handle /\ readerPc[c] # "exited" => bodyCloses[c] = 0)

C6_Witness ==
  \E c \in Calls :
    /\ op[c] \in StreamingOps
    /\ callPc[c] = "returned"
    /\ readerPc[c] = "exited"
    /\ resp[c].Body.fault
    /\ Len(received[c]) = 2
    /\ bodyCloses[c] = 1

SyncOps == Ops \ StreamingOps

\* The completion text of the success documents.
CompletionDocs == {DocCompletionHi, DocCompletionEmpty}
CompletionText(doc) == IF doc = DocCompletionHi THEN <<"hi">> ELSE <<>>

\* C7: a non-streaming completion whose response has status 200 and the
\* body {"completion": s} returns the text s and no error.
C7_SyncReturnsCompletion ==
  \A c \in Calls :
    \A doc \in CompletionDocs :
      ( /\ op[c] \in SyncOps
        /\ callPc[c] = "returned"
        /\ resp[c] # Nil
        /\ resp[c].StatusCode = 200
        /\ resp[c].Body = [lines |-> << <<doc>> >>, fault |-> FALSE] )
      => result[c] = [value |-> CompletionText(doc), handle |-> FALSE, err |-> NoError]

C7_Witness ==
  \E c \in Calls :
    /\ op[c] = "ServiceCompletion"
    /\ callPc[c] = "returned"
    /\ resp[c] # Nil
    /\ resp[c].StatusCode = 200
    /\ resp[c].Body = [lines |-> << <<DocCompletionHi>> >>, fault |-> FALSE]
    /\ result[c].value = <<"hi">>

\* The error message a body supplies: the text of its "error" member when
\* the body is a JSON object that has one, else nothing.
SuppliedMessage(lines) ==
  IF lines = << <<DocErrorForbidden>> >> THEN <<"forbidden">> ELSE <<>>

\* C8: a non-streaming completion whose response has a non-2xx status
\* returns an error and an empty text; the error contains the message the
\* body supplies, and when the body supplies none (it is not JSON, or JSON
\* without an error message) it contains the status code and the raw body.
C8_SyncErrorCarriesMessageOrBody ==
  \A c \in Calls :
    ( /\ op[c] \in SyncOps
      /\ callPc[c] = "returned"
      /\ resp[c] # Nil
      /\ resp[c].StatusCode \notin 200..299 )
    => /\ result[c].err # NoError
       /\ result[c].value = <<>>
       /\ (~resp[c].Body.fault =>
             LET lines == resp[c].Body.lines IN
             IF SuppliedMessage(lines) # <<>>
             THEN Contains(result[c].err, SuppliedMessage(lines))
             ELSE /\ Contains(result[c].err, <<ToString(resp[c].StatusCode)>>)
                  /\ Contains(result[c].err, Join(lines)))

\* C9: a streaming completion whose response has a non-2xx status returns
\* an error and no handle, with the body read to its end and closed once
\* when the call returns, no reader started and no event published.
C9_StreamRejectsEagerly ==
  \A c \in Calls :
    ( /\ op[c] \in StreamingOps
      /\ callPc[c] = "returned"
      /\ resp[c] # Nil
      /\ resp[c].StatusCode \notin 200..299 )
    => /\ result[c].err # NoError
       /\ ~result[c].handle
       /\ bodyEnd[c]
       /\ bodyPos[c] = Len(resp[c].Body.lines)
       /\ bodyCloses[c] = 1
       /\ readerPc[c] = "none"
       /\ Published(c) = <<>>
       /\ ~streamClosed[c]
       /\ consumer[c] = "none"

C9_Witness ==
  \E c \in Calls :
    /\ op[c] = "AgentCompletionStream"
    /\ callPc[c] = "returned"
    /\ resp[c] # Nil
    /\ resp[c].StatusCode = 403
    /\ resp[c].Body.lines = <<DataPrefix \o <<DocTextA>>, DataPrefix \o <<DocEnd>>>>
    /\ bodyCloses[c] = 1

RelayFailure == <<"failed to make interplugin request">>

\* C10: over the Sandboxed Relay, a nil response of PluginHTTP makes the
\* call fail with the transport error and gives the client no response,
\* and a non-nil response reaches the client as it was returned, without a
\* transport error.
C10_RelayNilIsFailure ==
  \A c \in Calls :
    hostCall[c].api = "PluginHTTP" =>
      IF hostCall[c].returned = Nil
      THEN /\ resp[c] = Nil
           /\ callPc[c] = "returned"
           /\ result[c].value = <<>>
           /\ ~result[c].handle
           /\ Contains(result[c].err, RelayFailure)
           /\ bodyCloses[c] = 0
      ELSE /\ resp[c] = hostCall[c].returned
           /\ ~Contains(result[c].err, RelayFailure)
           /\ callPc[c] # "do"

C10_Witness ==
  \E c \in Calls :
    /\ hostCall[c].api = "PluginHTTP"
    /\ hostCall[c].returned = Nil
    /\ callPc[c] = "returned"
    /\ result[c].err # NoError

\* The path of the request http.NewRequest built for call c.
BuiltPath(c) == ParseURL(URLFor(op[c], target[c])).Path

\* C11: when the request the client built is sent (the first round trip of
\* a call), over Direct Dispatch the path handed to the host router is the
\* path of the built request, "/mattermost-ai/<rest>", without its first
\* segment: "/<rest>"; over the Sandboxed Relay the path handed to the host
\* is the path of the built request.
C11_DirectDispatchStripsFirstSegment ==
  \A c \in DOMAIN callPc :
    roundTrips[c] = 1 =>
      /\ hostCall[c].api = "ServeInternalPluginRequest" =>
           /\ BuiltPath(c) = <<"/">> \o aiPluginID \o hostCall[c].path
           /\ hostCall[c].path[1] = "/"
      /\ hostCall[c].api = "PluginHTTP" => hostCall[c].path = BuiltPath(c)

C11_Witness ==
  \E c \in DOMAIN callPc :
    /\ op[c] = "AgentCompletion"
    /\ target[c] = <<"bot1", "/", "nostream">>
    /\ roundTrips[c] = 1
    /\ hostCall[c].api = "ServeInternalPluginRequest"
    /\ hostCall[c].path = <<"/", "bridge", "/", "v1", "/", "completion", "/", "agent", "/",
                            "bot1", "/", "nostream", "/", "nostream">>

\* C12: the path a completion call POSTs to encodes the target kind, the
\* mode and the target: no other completion call, of whatever kind, mode
\* and target, is built with the same request path.
C12_PathEncodesKindModeTarget ==
  \A c \in DOMAIN callPc :
    (callPc[c] = "do" /\ op[c] \in Ops) =>
      \A o \in Ops, t \in AnyTargets :
        LET u == ParseURL(URLFor(o, t)) IN
        (u.err = NoError /\ u.Path = reqPath[c]) => (o = op[c] /\ t = target[c])

\* C13: GetAgents and GetServices issue a GET with no query string when
\* userID is empty and with the query string user_id=<userID> otherwise.
C13_QueryCarriesUserID ==
  \A c \in DOMAIN callPc :
    (op[c] \in DiscoveryOps /\ hostCall[c].api # "none") =>
      /\ hostCall[c].method = "GET"
      /\ hostCall[c].query = (IF target[c] = <<>> THEN <<>> ELSE <<"user_id=">> \o target[c])

\* The JSON key of the list each discovery method decodes.
ListKey(method) == IF method = "GetAgents" THEN "agents" ELSE "services"

\* The response body is one JSON object in which the list named key is
\* well typed: an array, null or missing.
DecodableList(body, key) ==
  /\ Len(body.lines) = 1
  /\ Len(body.lines[1]) = 1
  /\ JSONDoc(body.lines[1][1]).valid
  /\ \A i \in 1..Len(JSONDoc(body.lines[1][1]).members) :
       LET m == JSONDoc(body.lines[1][1]).members[i] IN
       m.k = key => m.ty \in {"array", "null"}

\* The list named key in a decodable body is empty, null or missing.
EmptyOrMissingList(body, key) ==
  /\ DecodableList(body, key)
  /\ \A i \in 1..Len(JSONDoc(body.lines[1][1]).members) :
       LET m == JSONDoc(body.lines[1][1]).members[i] IN
       m.k = key => m.v = <<>>

\* The causes of an error the claim names: the transport failed
\* (httpClient.Do returned an error: the relay gave no response, or the host
\* kept redirecting), the body could not be read or decoded, or the status
\* is not 200.
ListFailureCause(c) ==
  \/ roundTrips[c] >= 1 /\ resp[c] = Nil
  \/ resp[c] # Nil /\ resp[c].Body.fault
  \/ resp[c] # Nil /\ resp[c].StatusCode # StatusOK
  \/ resp[c] # Nil /\ ~DecodableList(resp[c].Body, ListKey(op[c]))

\* A 200 response with an empty or missing list gives an empty list and no
\* error.
EmptyListIsNoError(c) ==
  (/\ resp[c] # Nil
   /\ resp[c].StatusCode = StatusOK
   /\ ~resp[c].Body.fault
   /\ EmptyOrMissingList(resp[c].Body, ListKey(op[c])))
  => result[c] = [value |-> <<>>, handle |-> FALSE, err |-> NoError]

C15_RoundTripPreservesRequest ==
  \A c \in DOMAIN callPc :
    (callPc[c] = "do" /\ op[c] \in Ops) => UnmarshalRequest(reqBody[c]) = request[c]

\* The request of call c can be constructed: the body marshals and the url
\* parses.
ConstructionOK(c) ==
  /\ op[c] \in DiscoveryOps \/ MarshalError(request[c]) = NoError
  /\ ParseURL(URLFor(op[c], target[c])).err = NoError

\* What the host answered on the latest round trip of call c.
LastAnswer(c) ==
  IF hostCall[c].api = "PluginHTTP" THEN hostCall[c].returned
  ELSE IF hostCall[c].api = "ServeInternalPluginRequest" THEN hostCall[c].wrote
  ELSE Nil

\* The latest answer is a redirect: a 3xx status with a Location.
AnsweredRedirect(c) ==
  /\ "StatusCode" \in DOMAIN LastAnswer(c)
  /\ LastAnswer(c).StatusCode \in {301, 302, 303, 307, 308}
  /\ "Location" \in DOMAIN LastAnswer(c)

\* At the return of a call: no round trip without a constructed request,
\* at least one with it, no result without a response, and an error for
\* every failure.
FailuresPropagate(c) ==
  callPc[c] = "returned" =>
    /\ ~ConstructionOK(c) => (roundTrips[c] = 0 /\ result[c].err # NoError)
    /\ ConstructionOK(c) => roundTrips[c] >= 1
    /\ resp[c] = Nil => result[c].err # NoError
    /\ (resp[c] # Nil /\ resp[c].StatusCode # StatusOK) => result[c].err # NoError
    /\ (resp[c] # Nil /\ op[c] \notin StreamingOps /\ resp[c].Body.fault) => result[c].err # NoError
    /\ result[c].err = NoError => (roundTrips[c] >= 1 /\ resp[c] # Nil)

\* C16 as stated: a returned call whose request could be constructed made
\* exactly one round trip, and every failure is an error of the call.
C16_ExactlyOneRoundTrip ==
  \A c \in DOMAIN callPc :
    /\ FailuresPropagate(c)
    /\ (callPc[c] = "returned" /\ ConstructionOK(c)) => roundTrips[c] = 1

\* C16, amended: every failure is an error of the call; the transport is
\* invoked once for the constructed request, and once more only for each
\* redirect the host answers with, MaxRedirects times in all at most: never
\* again after a failed round trip or a response that is no redirect.
C16_NoRetryNoCache ==
  /\ [](\A c \in DOMAIN callPc : FailuresPropagate(c) /\ roundTrips[c] <= MaxRedirects)
  /\ [][\A c \in DOMAIN callPc :
          roundTrips'[c] # roundTrips[c] =>
            /\ roundTrips'[c] = roundTrips[c] + 1
            /\ callPc[c] = "do"
            /\ roundTrips[c] > 0 => AnsweredRedirect(c)]_vars

C16_Witness ==
  \E c \in DOMAIN callPc :
    /\ op[c] = "AgentCompletion"
    /\ callPc[c] = "returned"
    /\ roundTrips[c] = 2
    /\ hostCall[c].method = "POST"
    /\ result[c] = [value |-> <<"hi">>, handle |-> FALSE, err |-> NoError]

\* The wrapper of an error of c.httpClient.Do, and the opening of a status
\* error.
ExecuteErrorPrefix == <<"failed to execute request: ">>
StatusErrorPrefix == <<"request failed with status ">>

\* The call through the transport could not be made: httpClient.Do
\* returned no response.
TransportFailure(c) == callPc[c] = "returned" /\ roundTrips[c] >= 1 /\ resp[c] = Nil

\* The server answered with a status other than 200.
ServerFailure(c) ==
  callPc[c] = "returned" /\ resp[c] # Nil /\ resp[c].StatusCode # StatusOK

\* C17: a transport error and a server-returned error are never the same
\* error value: the error of a call opens with "failed to execute request: "
\* exactly when the transport failed, and the error of a server failure never
\* does; it opens with "request failed with status " when the body was read.
C17_TransportErrorIsDistinct ==
  \A c \in DOMAIN callPc :
    /\ TransportFailure(c) => HasPrefix(result[c].err, ExecuteErrorPrefix)
    /\ ServerFailure(c) =>
         /\ result[c].err # NoError
         /\ ~HasPrefix(result[c].err, ExecuteErrorPrefix)
         /\ ~resp[c].Body.fault => HasPrefix(result[c].err, StatusErrorPrefix)
    /\ (callPc[c] = "returned" /\ HasPrefix(result[c].err, ExecuteErrorPrefix))
         => TransportFailure(c)

C17_Witness ==
  \E c \in DOMAIN callPc :
    /\ op[c] = "GetAgents"
    /\ target[c] = <<"user1">>
    /\ TransportFailure(c)
    /\ roundTrips[c] = 1
    /\ result[c].err = ExecuteErrorPrefix
         \o <<"Get \"", "/", "mattermost-ai", "/", "bridge", "/", "v1", "/", "agents", "?",
              "user_id=", "user1", "\": ", "failed to make interplugin request">>

\* Everything the model keeps for call c.
CallState(c) ==
  <<op[c], target[c], request[c], reqBody[c], reqMethod[c], reqPath[c], reqQuery[c],
    reqFragment[c], hostCall[c], roundTrips[c], callPc[c], resp[c], bodyClosed[c],
    result[c], bodyPos[c], bodyEnd[c], bodyCloses[c], readers[c], readerPc[c], event[c],
    received[c], streamClosed[c], consumer[c]>>

\* What a call returns when it runs alone and Do gave it the response r.
OutcomeAlone(method, r) ==
  IF method \in StreamingOps
  THEN IF r.StatusCode # StatusOK THEN Fail(StreamingStatusError(r))
       ELSE [value |-> <<>>, handle |-> TRUE, err |-> NoError]
  ELSE IF method \in DiscoveryOps THEN ListResult(r, ListKey(method))
  ELSE CompletionResult(r)

\* C18: with two callers on one Client, no step writes the Client (its
\* transport and the identity token stay as constructed), every Direct
\* Dispatch call hands the router the Client's token, a step of one call
\* leaves the other call's state alone, each returned call has the outcome
\* it has alone for the response it got, and a stream's consumer receives
\* only events of its own call's body, in order.
C18_ConcurrentCallsAreIndependent ==
  /\ [][/\ client' = client
        /\ \A c, d \in DOMAIN callPc :
             (c # d /\ CallState(c)' # CallState(c)) => CallState(d)' = CallState(d)]_vars
  /\ [](\A c \in DOMAIN callPc :
          /\ hostCall[c].api = "ServeInternalPluginRequest" =>
               hostCall[c].userID = client.userID
          /\ hostCall[c].api = "PluginHTTP" => client.transport = "pluginAPIRoundTripper"
          /\ (callPc[c] = "returned" /\ resp[c] # Nil) =>
               result[c] = OutcomeAlone(op[c], resp[c])
          /\ HasStream(c) => IsPrefix(received[c], DecodedEvents(resp[c].Body)))

C18_Witness ==
  /\ DOMAIN callPc = ConcurrentCalls
  /\ client.transport = "appAPIRoundTripper"
  /\ op[1] = "AgentCompletionStream"
  /\ op[2] = "AgentCompletionStream"
  /\ received[1] = <<TextA, End>>
  /\ received[2] = <<TextB>>
  /\ readerPc[1] = "exited"
  /\ readerPc[2] = "exited"
  /\ hostCall[1].userID = <<"user1">>
  /\ hostCall[2].userID = <<"user1">>

\* The body without its padding lines: only the lines that carry a frame.
StripPadding(body) == [lines |-> SelectSeq(body.lines, IsDataFrame), fault |-> body.fault]

\* The events up to and including the first End or Error event.
RECURSIVE UpToTerminal(_)
UpToTerminal(evs) ==
  IF evs = <<>> THEN <<>>
  ELSE IF IsTerminal(Head(evs)) THEN <<Head(evs)>>
  ELSE <<Head(evs)>> \o UpToTerminal(Tail(evs))

\* C19: a line without the data marker and a marker line without payload
\* give no event and do not end the stream: when the channel closes, the
\* consumer has received exactly the events of the body without its
\* padding lines, up to the first End or Error.
C19_PaddingIsSkipped ==
  \A c \in DOMAIN callPc :
    (HasStream(c) /\ streamClosed[c]) =>
      received[c] = UpToTerminal(DecodedEvents(StripPadding(resp[c].Body)))

C19_Witness ==
  \E c \in DOMAIN callPc :
    /\ HasStream(c)
    /\ streamClosed[c]
    /\ resp[c].Body.lines = <<DataPrefix, <<": keepalive">>, DataPrefix \o <<DocTextA>>>>
    /\ received[c] = <<TextA>>

\* The step is one of call c's reader goroutine and of nobody else: the
\* reader is running, the caller of c stays where it is and nothing of any
\* other call changes.
ReaderStepOnly(c) ==
  /\ readerPc[c] \notin {"none", "exited"}
  /\ callPc'[c] = callPc[c]
  /\ \A d \in DOMAIN callPc \ {c} : CallState(d)' = CallState(d)

\* C20: a streaming call that returns a handle has started exactly one
\* reader goroutine, and a call that returns none has started none; only
\* that reader sends on and closes the call's channel; and once the reader
\* is started, only it reads from and closes the call's response body:
\* neither the calling goroutine nor any goroutine of another call does.
C20_ReaderOwnsStreamAndBody ==
  /\ [](\A c \in DOMAIN callPc :
          /\ readers[c] <= 1
          /\ callPc[c] = "returned" => readers[c] = (IF result[c].handle THEN 1 ELSE 0)
          /\ (received[c] # <<>> \/ streamClosed[c]) => readers[c] = 1)
  /\ [][\A c \in DOMAIN callPc :
          /\ (received'[c] # received[c] \/ streamClosed'[c] # streamClosed[c]) =>
               ReaderStepOnly(c)
          /\ ( /\ readers[c] = 1
               /\ \/ bodyPos'[c] # bodyPos[c]
                  \/ bodyEnd'[c] # bodyEnd[c]
                  \/ bodyCloses'[c] # bodyCloses[c] ) =>
               ReaderStepOnly(c)]_vars

C20_Witness ==
  /\ DOMAIN callPc = ConcurrentCalls
  /\ op[1] = "AgentCompletionStream"
  /\ op[2] = "AgentCompletionStream"
  /\ readers[1] = 1
  /\ readers[2] = 1
  /\ callPc[1] = "returned"
  /\ callPc[2] = "mark"
  /\ readerPc[1] = "exited"
  /\ bodyCloses[1] = 1
  /\ bodyPos[2] = 1
  /\ bodyCloses[2] = 0

\* C21: in the non-streaming completion and in GetAgents / GetServices the
\* body of the response Do returned is never closed twice and never before
\* it was read, it has been closed exactly once when the method has
\* returned, with a result or with any error, and nothing is closed when Do
\* returned no response.
C21_SyncBodyClosedOnce ==
  \A c \in DOMAIN callPc :
    op[c] \notin StreamingOps =>
      /\ bodyCloses[c] <= 1
      /\ bodyCloses[c] = 1 => (resp[c] # Nil /\ bodyEnd[c])
      /\ callPc[c] = "returned" => bodyCloses[c] = (IF resp[c] # Nil THEN 1 ELSE 0)

C21_Witness ==
  \E c \in DOMAIN callPc :
    /\ op[c] = "GetServices"
    /\ callPc[c] = "returned"
    /\ resp[c] # Nil
    /\ resp[c].StatusCode = StatusOK
    /\ resp[c].Body.fault
    /\ HasPrefix(result[c].err, <<"failed to read response body: ">>)
    /\ bodyCloses[c] = 1

\* C22: every method treats a response whose status is not exactly 200 as a
\* failure, other 2xx statuses included: the call returns an error, no
\* value and no handle, and a streaming call has started no reader.
C22_OnlyStatus200Succeeds ==
  \A c \in DOMAIN callPc :
    (callPc[c] = "returned" /\ resp[c] # Nil /\ resp[c].StatusCode # StatusOK) =>
      /\ result[c].err # NoError
      /\ result[c].value = <<>>
      /\ ~result[c].handle
      /\ readers[c] = 0
      /\ readerPc[c] = "none"

C22_Witness ==
  \E c \in DOMAIN callPc :
    /\ op[c] = "AgentCompletion"
    /\ callPc[c] = "returned"
    /\ resp[c] # Nil
    /\ resp[c].StatusCode = 201
    /\ resp[c].Body = [lines |-> << <<DocCompletionHi>> >>, fault |-> FALSE]
    /\ result[c] = Fail(StatusError(201, <<>>))


\* The reader of call c is gone and has released what it owned.
ReaderFinished(c) ==
  readerPc[c] = "exited" /\ streamClosed[c] /\ bodyCloses[c] = 1

\* C23: once the background reader of a streaming call is started (every body
\* is finite: it ends or faults after finitely many lines), then, unless the
\* consumer stops receiving, the reader eventually terminates with the queue
\* closed and the connection released.
C23_ReaderEventuallyFinishes ==
  \A c \in Calls :
    (readers[c] = 1) ~> (ReaderFinished(c) \/ consumer[c] = "abandoned")

\* A reader that finished after the consumer received every event of a
\* stream, the consumer having seen the queue closed.
C23_Witness ==
  \E c \in DOMAIN callPc :
    /\ ReaderFinished(c)
    /\ consumer[c] = "done"
    /\ Len(received[c]) = 2
    /\ bodyEnd[c]


\* The events the reader of call c has made so far: those of the data frames
\* among the lines it has scanned, and the read error once Scan has returned
\* false on a faulted body.
ScannedEvents(c) ==
  FrameEvents(SubSeq(resp[c].Body.lines, 1, bodyPos[c]))
    \o (IF bodyEnd[c] /\ resp[c].Body.fault
        THEN <<ReadErrorEvent(<<"unexpected EOF">>)>> ELSE <<>>)

\* C24: the stream has no buffer. The events the reader has made exceed the
\* events the consumer has received by at most one, by exactly one while the
\* reader is in a send, and then the event of the send is that of the last
\* line scanned: the reader has read no line past it.
C24_AtMostOnePendingEvent ==
  \A c \in Calls :
    HasStream(c) =>
      LET pending == Len(ScannedEvents(c)) - Len(received[c]) IN
      /\ pending \in {0, 1}
      /\ pending = 1 <=> readerPc[c] \in SendPcs
      /\ readerPc[c] \in SendPcs =>
           /\ ScannedEvents(c) = Append(received[c], event[c])
           /\ readerPc[c] # "sendReadError" =>
                /\ bodyPos[c] >= 1
                /\ IsDataFrame(resp[c].Body.lines[bodyPos[c]])
                /\ FrameEvent(resp[c].Body.lines[bodyPos[c]]) = event[c]

\* The reader waits in the send of the second event, the consumer has the
\* first, and a third line of the body is still unread.
C24_Witness ==
  \E c \in DOMAIN callPc :
    /\ readerPc[c] = "send"
    /\ consumer[c] = "reading"
    /\ received[c] = <<TextA>>
    /\ event[c] = TextB
    /\ bodyPos[c] = 2
    /\ Len(resp[c].Body.lines) = 3


\* C25: on every exit of the reader the channel is closed before the body.
\* The body of a started stream is closed only once the channel is closed,
\* the channel is closed only by the exiting reader, between the two closes
\* the channel is closed and the body still open, and after its exit the
\* reader has closed both.
C25_StreamClosedBeforeBody ==
  \A c \in Calls :
    HasStream(c) =>
      /\ bodyCloses[c] > 0 => streamClosed[c]
      /\ streamClosed[c] <=> readerPc[c] \in {"closeBody", "exited"}
      /\ readerPc[c] = "closeBody" => bodyCloses[c] = 0
      /\ readerPc[c] = "exited" => bodyCloses[c] = 1

\* The consumer has seen the channel closed while the body is still open.
C25_Witness ==
  \E c \in DOMAIN callPc :
    /\ consumer[c] = "done"
    /\ streamClosed[c]
    /\ readerPc[c] = "closeBody"
    /\ bodyCloses[c] = 0


\* The response the recorder gives when the router wrote nothing.
EmptyOK == [StatusCode |-> StatusOK, Body |-> [lines |-> <<>>, fault |-> FALSE]]

\* C26: a round trip over Direct Dispatch always gives a response and no
\* error. The response of the call is what the recorder makes of what the
\* router wrote; the call has no response only while http.Client follows a
\* redirect the router wrote, and it fails with an execute error only when
\* http.Client gives up after MaxRedirects requests. When the router wrote
\* nothing the response is an empty 200: a non-streaming call then fails with
\* a decode error, and a streaming call returns a handle whose channel
\* closes without an event.
C26_DirectDispatchNeverFails ==
  \A c \in Calls :
    hostCall[c].api = "ServeInternalPluginRequest" =>
      LET built == RecorderResult(hostCall[c].wrote) IN
      /\ roundTrips[c] >= 1
      /\ resp[c] \in {Nil, built}
      /\ resp[c] = Nil =>
           /\ RedirectBehavior(hostCall[c].method, built).shouldRedirect
           /\ Location(built) # <<>>
      /\ HasPrefix(result[c].err, ExecuteErrorPrefix) =>
           /\ roundTrips[c] = MaxRedirects
           /\ Last(result[c].err) = "stopped after 10 redirects"
      /\ hostCall[c].wrote = Nothing =>
           /\ resp[c] = EmptyOK
           /\ (callPc[c] = "returned" /\ op[c] \notin StreamingOps) =>
                result[c] = Fail(<<"failed to unmarshal response: ",
                                   "unexpected end of JSON input">>)
           /\ (callPc[c] = "returned" /\ op[c] \in StreamingOps) =>
                result[c] = [value |-> <<>>, handle |-> TRUE, err |-> NoError]
           /\ received[c] = <<>>
           /\ readerPc[c] \notin SendPcs

\* The router wrote nothing, the streaming call returned its handle and the
\* consumer found the channel closed without having received an event.
C26_Witness ==
  \E c \in DOMAIN callPc :
    /\ hostCall[c].api = "ServeInternalPluginRequest"
    /\ hostCall[c].wrote = Nothing
    /\ op[c] \in StreamingOps
    /\ result[c].handle
    /\ consumer[c] = "done"
    /\ received[c] = <<>>


\* The part of a path from its second slash on, or a single slash when it
\* has no second slash.
FromSecondSlash(path) ==
  LET I == {i \in 2..Len(path) : path[i] = "/"} IN
  IF I = {} THEN <<"/">>
  ELSE LET k == CHOOSE i \in I : \A j \in I : i <= j
       IN [j \in 1..(Len(path) - k + 1) |-> path[k + j - 1]]

\* C27: for a request whose path starts with a slash, the round trip over
\* Direct Dispatch replaces the path by its part from the second slash on,
\* or by a single slash when there is none; the new path starts with a slash
\* and is not longer than the old one, and the host is handed the request
\* with that path and with its method, query and body unchanged; unless
\* http.Client goes on to follow a redirect, the request keeps them.
C27_RemoveFirstPath ==
  [][ \A c \in Calls :
        (client.transport = "appAPIRoundTripper" /\ callPc[c] = "do"
           /\ roundTrips'[c] # roundTrips[c]) =>
          LET old == reqPath[c]
              new == hostCall'[c].path
          IN /\ new = FromSecondSlash(old)
             /\ Head(new) = "/"
             /\ Len(new) <= Len(old)
             /\ hostCall'[c].method = reqMethod[c]
             /\ hostCall'[c].query = reqQuery[c]
             /\ hostCall'[c].body = reqBody[c]
             /\ callPc'[c] # "do" =>
                  /\ reqPath'[c] = new
                  /\ reqMethod'[c] = reqMethod[c]
                  /\ reqQuery'[c] = reqQuery[c]
                  /\ reqBody'[c] = reqBody[c]
                  /\ reqFragment'[c] = reqFragment[c]
    ]_vars

\* The host was handed a request whose path has been cut at its second
\* slash, a later slash and the query still in place.
C27_Witness ==
  \E c \in DOMAIN callPc :
    /\ hostCall[c].api = "ServeInternalPluginRequest"
    /\ hostCall[c].path = <<"/", "b", "/">>
    /\ reqPath[c] = <<"/", "b", "/">>
    /\ hostCall[c].query = <<"user_id=", "user1">>
    /\ hostCall[c].method = "GET"

====
